---- MODULE Spec2Model ----
(***************************************************************************)
(* Model of mtlchmm/model.py: the block-tiled forward-backward smoother    *)
(* of ModelHMM (fit_predict, _setup_out_infos, _block_func, close,         *)
(* _transition_matrix) and the pure functions normalize and                *)
(* forward_backward.                                                       *)
(*                                                                         *)
(* Numbers.  The program computes in float32.  The model computes in exact *)
(* rationals: a number is a pair <<n, d>> in lowest terms with d > 0.  The *)
(* non-finite values a raster can hold are pairs with d = 0: <<0, 0>> is   *)
(* NaN and <<1, 0>> is Inf.  A cell of an output raster that no            *)
(* write_array has touched holds Unwritten.                                *)
(***************************************************************************)
EXTENDS Integers, Sequences, FiniteSets, TLC

----------------------------------------------------------------------------
(* Rational arithmetic *)

Abs(x) == IF x < 0 THEN 0 - x ELSE x

RECURSIVE Gcd(_, _)
Gcd(a, b) == IF b = 0 THEN a ELSE Gcd(b, a % b)

Rat(n, d) ==
    IF d = 0 THEN (IF n = 0 THEN <<0, 0>> ELSE <<1, 0>>)
    ELSE IF n = 0 THEN <<0, 1>>
    ELSE LET g == Gcd(Abs(n), Abs(d))
             s == IF d < 0 THEN 0 - 1 ELSE 1
         IN  <<(s * n) \div g, (s * d) \div g>>

Zero == <<0, 1>>
One  == <<1, 1>>
NaN  == <<0, 0>>
Inf  == <<1, 0>>
Unwritten == <<0, 0 - 1>>

RAdd(a, b) == Rat(a[1] * b[2] + b[1] * a[2], a[2] * b[2])
RSub(a, b) == Rat(a[1] * b[2] - b[1] * a[2], a[2] * b[2])
RMul(a, b) == Rat(a[1] * b[1], a[2] * b[2])
RDiv(a, b) == Rat(a[1] * b[2], a[2] * b[1])
RLess(a, b) == a[1] * b[2] < b[1] * a[2]
RMax(a, b) == IF RLess(a, b) THEN b ELSE a
IsFinite(a) == a[2] > 0

(* Vectors are functions on 0..n-1, as numpy arrays are indexed. *)
RECURSIVE VSumTo(_, _)
VSumTo(v, k) == IF k < 0 THEN Zero ELSE RAdd(VSumTo(v, k - 1), v[k])
VSum(v) == VSumTo(v, Cardinality(DOMAIN v) - 1)

RECURSIVE VMaxTo(_, _)
VMaxTo(v, k) == IF k = 0 THEN v[0] ELSE RMax(VMaxTo(v, k - 1), v[k])
VMax(v) == VMaxTo(v, Cardinality(DOMAIN v) - 1)

VMul(a, b) == [k \in DOMAIN a |-> RMul(a[k], b[k])]

(* m.dot(v) for a matrix m[r][c] *)
MDot(m, v) == [r \in DOMAIN m |-> VSum([c \in DOMAIN v |-> RMul(m[r][c], v[c])])]
MTranspose(m) == [c \in DOMAIN m[0] |-> [r \in DOMAIN m |-> m[r][c]]]

----------------------------------------------------------------------------
(* model.py: normalize *)

normalizeUnguarded(v) ==
    LET Z == VSum(v)
    IN  [k \in DOMAIN v |-> RDiv(v[k], Z)]

normalize(v) ==
    LET Z == VSum(v)
    IN  IF RLess(Zero, Z) THEN [k \in DOMAIN v |-> RDiv(v[k], Z)] ELSE v

----------------------------------------------------------------------------
(* model.py: ModelHMM._transition_matrix, scalar prior *)

fill_diagonal(m, x) == [r \in DOMAIN m |-> [c \in DOMAIN m[r] |-> IF r = c THEN x ELSE m[r][c]]]

TransitionMatrixStochastic(L, p) ==
    LET filled == [r \in 0..(L - 1) |-> [c \in 0..(L - 1) |->
                      IF L > 1 THEN RDiv(p, Rat(L - 1, 1)) ELSE p]]
    IN  fill_diagonal(filled, IF L > 1 THEN RSub(One, p) ELSE One)

TransitionMatrixOf(L, p) ==
    LET filled == [r \in 0..(L - 1) |-> [c \in 0..(L - 1) |-> p]]
    IN  fill_diagonal(filled, RSub(One, p))

----------------------------------------------------------------------------
(* model.py: forward_backward.  ts[t][l] is time_series; tm is             *)
(* transition_matrix and tmt its transpose.  fwd and bwd are the global    *)
(* buffers forward and backward of the process as the task finds them; the *)
(* rows are assigned in the order the code assigns them, and every other   *)
(* row keeps what the buffer held.                                         *)

(* lines 74-79: forward after the rows 0..t have been assigned *)
RECURSIVE ForwardTo(_, _, _, _)
ForwardTo(fwd, ts, tmt, t) ==
    IF t = 0 THEN [fwd EXCEPT ![0] = ts[0]]
    ELSE LET prev == ForwardTo(fwd, ts, tmt, t - 1)
             v == VMul(ts[t], MDot(tmt, prev[t - 1]))
         IN  [prev EXCEPT ![t] = normalize(v)]

(* line 82: backward[n_steps-1, :] = label_ones *)
LastRowKept(bwd, T, ones) == bwd
LastRowOnes(bwd, T, ones) == [bwd EXCEPT ![T - 1] = ones]

(* lines 82-87: backward after the rows n_steps-1 down to t have been assigned *)
RECURSIVE BackwardFrom(_, _, _, _, _)
BackwardFrom(bwd, ts, tm, t, ones) ==
    LET T == Cardinality(DOMAIN ts)
    IN  IF t = T - 1 THEN LastRowOnes(bwd, T, ones)
        ELSE LET nxt == BackwardFrom(bwd, ts, tm, t + 1, ones)
                 v == MDot(tm, VMul(ts[t + 1], nxt[t + 1]))
             IN  [nxt EXCEPT ![t] = normalize(v)]

(* lines 89-96: the product of the two buffers, each row divided by its    *)
(* sum, or by 1 where the sum is 0                                         *)
Belief(fwd, bwd) ==
    LET belief == [t \in DOMAIN fwd |-> VMul(fwd[t], bwd[t])]
        Z == [t \in DOMAIN fwd |-> LET z == VSum(belief[t]) IN IF z = Zero THEN One ELSE z]
    IN  [t \in DOMAIN fwd |-> [l \in DOMAIN belief[t] |-> RDiv(belief[t][l], Z[t])]]

TsMax(ts) == VMax([t \in DOMAIN ts |-> VMax(ts[t])])

(* lines 68-101 on a time series: the transposed belief result[l][t] that  *)
(* is returned, and the two buffers as the task leaves them.  A time       *)
(* series whose maximum is 0 is returned as it is, the buffers untouched.  *)
forward_backward_on(fwd, bwd, ts, tm, tmt) ==
    IF TsMax(ts) = Zero
    THEN [result |-> MTranspose(ts), forward |-> fwd, backward |-> bwd]
    ELSE LET T == Cardinality(DOMAIN ts)
             L == Cardinality(DOMAIN ts[0])
         IN  CHOOSE task \in
                 { [result |-> MTranspose(Belief(f, b)), forward |-> f, backward |-> b] :
                     f \in {ForwardTo(fwd, ts, tmt, T - 1)},
                     b \in {BackwardFrom(bwd, ts, tm, 0, [l \in 0..(L - 1) |-> One])} } : TRUE

(* lines 232-233: np.empty((n_steps, n_labels)), holding g in every cell *)
EmptyBuffer(T, L, g) == [t \in 0..(T - 1) |-> [l \in 0..(L - 1) |-> g]]

(* What forward_backward returns for a time series in a process whose      *)
(* buffers have never been assigned                                        *)
forward_backward_ts(ts, tm, tmt) ==
    LET fresh == EmptyBuffer(Cardinality(DOMAIN ts), Cardinality(DOMAIN ts[0]), Unwritten)
    IN  forward_backward_on(fresh, fresh, ts, tm, tmt).result

----------------------------------------------------------------------------
(* Bounds of the model *)

MaxRows == 2
MaxCols == 2
MaxBlock == 2
NSteps == 2
NLabels == 2

(* Values of self.n_jobs tried: -1 is the 'all cores' convention *)
NJobsValues == {0 - 1, 1, 2}
(* What the descriptor of the first image yields for bands, rows, cols *)
HeaderKinds == {"ok", "bad_bands", "bad_rows", "bad_cols"}
TransitionPrior == Rat(1, 10)

----------------------------------------------------------------------------
(* The input rasters on disk.  An image set is a record                   *)
(*   [hdr, rows, cols, zr, zc]:                                            *)
(* every image has `rows` x `cols` pixels and NLabels bands; the pixels    *)
(* (r, c) with r < zr and c < zc carry no data (0, NaN or Inf in every     *)
(* band of every time step), every other pixel carries a probability that  *)
(* depends on its position, the time step and the band.                    *)

NoDataValue(r, c) ==
    CASE (r + c) % 3 = 0 -> Zero
      [] (r + c) % 3 = 1 -> NaN
      [] OTHER -> Inf

ImgValue(im, t, l, r, c) ==
    IF r < im.zr /\ c < im.zc THEN NoDataValue(r, c)
    ELSE Rat(1 + (((r * im.cols + c) + t + 2 * l) % 4), 4)

ImageSets ==
    { [hdr |-> h, rows |-> nr, cols |-> nc, zr |-> a, zc |-> b] :
        h \in HeaderKinds, nr \in 1..MaxRows, nc \in 1..MaxCols,
        a \in 0..MaxRows, b \in 0..MaxCols }

WellFormedImages(im) ==
    /\ im.zr <= im.rows /\ im.zc <= im.cols
    /\ (im.zr = 0) = (im.zc = 0)
    /\ (im.hdr # "ok" => im.rows = 1 /\ im.cols = 1 /\ im.zr = 0)

(* The attributes of self that the constructor sets (not in model.py).     *)
ClassList == [k \in 1..NLabels |-> 2 * k + 3]

Selves ==
    { [n_images |-> n, n_jobs |-> nj, block_size |-> bs, assign_class |-> ac,
       class_list_is_list |-> cl, transition_prior |-> TransitionPrior] :
        n \in {0, NSteps}, nj \in NJobsValues, bs \in 1..MaxBlock,
        ac \in BOOLEAN, cl \in BOOLEAN }

WellFormedSelf(s, im) ==
    /\ (s.class_list_is_list => s.assign_class)
    /\ (s.n_images = 0 \/ im.hdr # "ok" =>
            s.n_jobs = 1 /\ s.block_size = 1 /\ ~s.assign_class)
    /\ (s.n_images = 0 => im.hdr = "ok" /\ im.rows = 1 /\ im.cols = 1 /\ im.zr = 0)

----------------------------------------------------------------------------
(* State *)

VARIABLES
    self,              \* attributes set by the constructor
    images,            \* the input rasters on disk
    markers,           \* disk: offsets <<i, j>> whose hmmIIII_JJJJ.txt exists
    out,               \* disk: out[t] is the raster <name>_hmm of image t, <<>> while absent
    pc,                \* position of the call
    err,               \* the exception that ended the call, "" if none
    info,              \* self.n_steps, self.n_labels, self.rows, self.cols
    transition_matrix, \* global transition_matrix (transition_matrix_t is its transpose)
    image_infos,       \* self.image_infos: state of each handle
    o_infos,           \* self.o_infos: state of each handle
    i, j,              \* offsets of the current block
    n_rows, n_cols,    \* extent of the current block
    n_samples,         \* global n_samples
    step, layer,       \* loop counters of the load and write loops
    d_stack,           \* global d_stack, in memory order
    block_max,
    pending,           \* pool.map: samples whose task has not returned
    results,           \* pool.map: results of the tasks returned so far
    hmm_results,       \* the reshaped results [step][label][row][col]
    forward, backward, \* globals forward and backward of each worker process of
                       \* the pool, <<>> while there is no pool
    bands_read,        \* bands covered by the last read of the current block
    raster_io,         \* kinds of raster I/O done so far in this call
    skipped,           \* blocks skipped in this call because their marker exists
    loaded,            \* blocks of which a window was read in this call
    dispatched,        \* <<block, sample>> tasks handed to the pool in this call
    wrote,             \* <<block, step, band>> written in this call
    start_markers,     \* markers present when this call began
    start_out,         \* the output rasters as they were when this call began
    prev               \* how the previous call ended: its pc ("" if this call is
                       \* the first) and err, and the block whose task failed

disk == <<markers, out>>
config == <<self, images>>
handles == <<image_infos, o_infos>>
block == <<i, j, n_rows, n_cols, n_samples, step, layer, d_stack, block_max,
           pending, results, hmm_results, bands_read>>
scratch == <<forward, backward>>
history == <<raster_io, skipped, loaded, dispatched, wrote, start_markers, start_out, prev>>
vars == <<config, disk, pc, err, info, transition_matrix, handles, block, scratch, history>>

Terminal == {"done", "raised", "interrupted"}

(* A fresh process: nothing of a previous call survives but the disk. *)
FreshProcess ==
    /\ pc = "fit_predict"
    /\ err = ""
    /\ info = [n_steps |-> 0, n_labels |-> 0, rows |-> 0, cols |-> 0]
    /\ transition_matrix = <<>>
    /\ image_infos = <<>>
    /\ o_infos = <<>>
    /\ i = 0 /\ j = 0 /\ n_rows = 0 /\ n_cols = 0 /\ n_samples = 0
    /\ step = 0 /\ layer = 0
    /\ d_stack = <<>>
    /\ block_max = Zero
    /\ pending = {}
    /\ results = <<>>
    /\ hmm_results = <<>>
    /\ forward = <<>> /\ backward = <<>>
    /\ bands_read = {}
    /\ raster_io = {}
    /\ skipped = {}
    /\ loaded = {}
    /\ dispatched = {}
    /\ wrote = {}

Init ==
    /\ images \in {im \in ImageSets : WellFormedImages(im)}
    /\ self \in {s \in Selves : WellFormedSelf(s, images)}
    /\ markers = {}
    /\ out = [t \in 0..(NSteps - 1) |-> <<>>]
    /\ start_markers = {}
    /\ start_out = out
    /\ prev = [pc |-> "", err |-> "", block |-> <<0, 0>>]
    /\ FreshProcess

Raise(e) ==
    /\ pc' = "raised"
    /\ err' = e

----------------------------------------------------------------------------
(* ModelHMM.fit_predict *)

(* lines 130-139: the empty-list check, then n_steps *)
CheckData ==
    /\ pc = "fit_predict"
    /\ IF self.n_images = 0
       THEN Raise("EmptyInput") /\ UNCHANGED info
       ELSE /\ pc' = "ropen_first"
            /\ info' = [info EXCEPT !.n_steps = self.n_images]
            /\ err' = err
    /\ UNCHANGED <<config, disk, transition_matrix, handles, block, history>>
    /\ UNCHANGED scratch

(* lines 142-148: the first image is opened, its descriptor read, and the  *)
(* handle closed by the with statement.  A descriptor field that is not an *)
(* integer is modelled as -1.                                              *)
RopenFirst ==
    /\ pc = "ropen_first"
    /\ \/ /\ pc' = "validate"
          /\ err' = err
          /\ info' = [info EXCEPT
                 !.n_labels = IF images.hdr = "bad_bands" THEN 0 - 1 ELSE NLabels,
                 !.rows = IF images.hdr = "bad_rows" THEN 0 - 1 ELSE images.rows,
                 !.cols = IF images.hdr = "bad_cols" THEN 0 - 1 ELSE images.cols]
          /\ raster_io' = raster_io \cup {"open"}
       \/ /\ Raise("IOError")
          /\ UNCHANGED <<info, raster_io>>
    /\ UNCHANGED <<config, disk, transition_matrix, handles, block,
                   skipped, loaded, dispatched, wrote, start_markers, start_out, prev>>
    /\ UNCHANGED scratch

IsInt(v) == v >= 0

(* lines 150-163: the error of the first check that fails, "" if none *)
NoTypeCheck == ""
TypeCheck ==
    IF ~IsInt(info.n_labels) THEN "BadLabels"
    ELSE IF ~IsInt(info.rows) THEN "BadRows"
    ELSE IF ~IsInt(info.cols) THEN "BadCols"
    ELSE ""

(* lines 150-163 *)
Validate ==
    /\ pc = "validate"
    /\ IF TypeCheck # "" THEN Raise(TypeCheck)
       ELSE pc' = "transition" /\ err' = err
    /\ UNCHANGED <<config, disk, info, transition_matrix, handles, block, history>>
    /\ UNCHANGED scratch

(* line 391: isinstance(self.transition_prior, np.ndarray).  A scalar      *)
(* prior is a rational <<n, d>>, an array prior a matrix m[r][c] indexed   *)
(* from 0.                                                                 *)
IsNdarray(p) == DOMAIN p # 1..2

(* line 166: ModelHMM._transition_matrix, lines 391-399: an array prior is *)
(* taken as it is, a scalar prior fills the matrix.                        *)
SetTransitionMatrix ==
    /\ pc = "transition"
    /\ transition_matrix' = IF IsNdarray(self.transition_prior)
                            THEN self.transition_prior
                            ELSE TransitionMatrixOf(info.n_labels, self.transition_prior)
    /\ pc' = "open_images"
    /\ UNCHANGED <<config, disk, err, info, handles, block, history>>
    /\ UNCHANGED scratch

(* line 172: one ropen of the list comprehension.  A failure leaves the    *)
(* handles already opened as they are.                                     *)
OpenImage ==
    /\ pc = "open_images"
    /\ \/ /\ image_infos' = Append(image_infos, "open")
          /\ raster_io' = raster_io \cup {"open"}
          /\ pc' = IF Len(image_infos) + 1 = info.n_steps THEN "setup_out" ELSE pc
          /\ err' = err
       \/ /\ Raise("IOError")
          /\ UNCHANGED <<image_infos, raster_io>>
    /\ UNCHANGED <<config, disk, info, transition_matrix, o_infos, block,
                   skipped, loaded, dispatched, wrote, start_markers, start_out, prev>>
    /\ UNCHANGED scratch

OutBands == IF self.assign_class THEN 1 ELSE info.n_labels

NewRaster ==
    [b \in 1..OutBands |-> [r \in 0..(info.rows - 1) |-> [c \in 0..(info.cols - 1) |-> Unwritten]]]

(* lines 208-219: the raster behind the handle of output k *)
CreateAlways(k) == NewRaster
OpenOrCreate(k) == IF out[k] # <<>> THEN out[k] ELSE NewRaster

(* ModelHMM._setup_out_infos, lines 192-219: one turn of the loop.  An     *)
(* output that exists is reopened for writing, else it is created with the *)
(* geometry of its input (one byte band when assign_class).                *)
SetupOutInfo ==
    /\ pc = "setup_out"
    /\ LET k == Len(o_infos)
       IN  \/ /\ o_infos' = Append(o_infos, "open")
              /\ out' = [out EXCEPT ![k] = OpenOrCreate(k)]
              /\ raster_io' = raster_io \cup {IF out[k] # <<>> THEN "open" ELSE "create"}
              /\ pc' = IF k + 1 = info.n_steps THEN "block_func" ELSE pc
              /\ err' = err
           \/ /\ Raise("IOError")
              /\ UNCHANGED <<o_infos, out, raster_io>>
    /\ UNCHANGED <<config, markers, info, transition_matrix, image_infos, block,
                   skipped, loaded, dispatched, wrote, start_markers, start_out, prev>>
    /\ UNCHANGED scratch

----------------------------------------------------------------------------
(* ModelHMM._block_func *)

(* raster_tools.n_rows_cols as called in lines 239 and 248: the block      *)
(* size, clipped to what is left of the extent.                            *)
n_rows_cols(pixel_index, block_size, rows_cols) ==
    IF pixel_index + block_size < rows_cols THEN block_size ELSE rows_cols - pixel_index

(* Offsets of the two range(0, extent, block_size) loops, lines 237, 241 *)
RowOffsets == {a \in 0..(info.rows - 1) : a % self.block_size = 0}
ColOffsets == {b \in 0..(info.cols - 1) : b % self.block_size = 0}
Blocks == RowOffsets \X ColOffsets

(* line 243: the name of the marker file holds the offsets of the block *)
hmm_block_tracker_no_offsets == <<0, 0>>
hmm_block_tracker == <<i, j>>

(* line 245: os.path.isfile(hmm_block_tracker) *)
isfileNever(tracker) == FALSE
isfile(tracker) == tracker \in markers

(* lines 227-237: the globals are set and the loops entered *)
BlockFunc ==
    /\ pc = "block_func"
    /\ i' = 0 /\ j' = 0
    /\ n_rows' = n_rows_cols(0, self.block_size, info.rows)
    /\ pc' = "block"
    /\ UNCHANGED <<config, disk, err, info, transition_matrix, handles, n_cols,
                   n_samples, step, layer, d_stack, block_max, pending, results,
                   hmm_results, bands_read, history>>
    /\ UNCHANGED scratch

(* The loop headers of lines 237-241: moves to the block after <<i, j>>,   *)
(* or leaves both loops for self.close().                                  *)
ContinueByOne ==
    IF j + 1 < info.cols
    THEN /\ j' = j + 1
         /\ UNCHANGED <<i, n_rows>>
         /\ pc' = "block"
    ELSE IF i + 1 < info.rows
    THEN /\ i' = i + 1
         /\ j' = 0
         /\ n_rows' = n_rows_cols(i + 1, self.block_size, info.rows)
         /\ pc' = "block"
    ELSE /\ UNCHANGED <<i, j, n_rows>>
         /\ pc' = "close"

Continue ==
    IF j + self.block_size < info.cols
    THEN /\ j' = j + self.block_size
         /\ UNCHANGED <<i, n_rows>>
         /\ pc' = "block"
    ELSE IF i + self.block_size < info.rows
    THEN /\ i' = i + self.block_size
         /\ j' = 0
         /\ n_rows' = n_rows_cols(i + self.block_size, self.block_size, info.rows)
         /\ pc' = "block"
    ELSE /\ UNCHANGED <<i, j, n_rows>>
         /\ pc' = "close"

(* np.empty: memory whose content is never read before it is assigned *)
Empty(n) == [k \in 0..(n - 1) |-> Unwritten]

(* line 251: the global n_samples of the block *)
SampleCountKept(rows, cols) == n_samples
SampleCount(rows, cols) == rows * cols

(* lines 243-257: the marker check, then the set-up of the block stack *)
VisitBlock ==
    /\ pc = "block"
    /\ IF isfile(hmm_block_tracker)
       THEN /\ skipped' = skipped \cup {<<i, j>>}
            /\ Continue
            /\ UNCHANGED <<n_cols, n_samples, d_stack, block_max, step>>
       ELSE /\ n_cols' = n_rows_cols(j, self.block_size, info.cols)
            /\ n_samples' = SampleCount(n_rows, n_cols')
            /\ d_stack' = Empty(info.n_steps * info.n_labels * n_rows * n_cols')
            /\ block_max' = Zero
            /\ step' = 0
            /\ pc' = "read"
            /\ UNCHANGED <<i, j, n_rows, skipped>>
    /\ UNCHANGED <<config, disk, err, info, transition_matrix, handles, layer,
                   pending, results, hmm_results, bands_read,
                   raster_io, loaded, dispatched, wrote, start_markers, start_out, prev>>
    /\ UNCHANGED scratch

(* image_info.read(bands2open, i, j, rows, cols) of the raster library:    *)
(* bands2open = -1 reads every band, into an array [band][row][col]; a     *)
(* band position 1..bands reads that band alone, into an array [row][col]; *)
(* any other value is an error.                                            *)
ReadBands(bands2open) ==
    IF bands2open = 0 - 1 THEN 1..NLabels
    ELSE IF bands2open \in 1..NLabels THEN {bands2open}
    ELSE {}

(* The value the window read at time step t holds for label l (0-based) at *)
(* <<r, c>> of the block, once assigned to d_stack[step]: a one-band array *)
(* is broadcast over the labels.                                           *)
StepArray(t, bands2open, l, r, c) ==
    LET band == IF bands2open = 0 - 1 THEN l ELSE bands2open - 1
    IN  ImgValue(images, t, band, i + r, j + c)

(* line 272 *)
Sanitize(v) == IF IsFinite(v) THEN v ELSE Zero

(* Position of [t][l][r][c] of the block stack in memory *)
StackIndex(t, l, r, c) == ((t * info.n_labels + l) * n_rows + r) * n_cols + c

(* lines 261-276: one turn of the load loop *)
ReadStep ==
    /\ pc = "read"
    /\ \/ /\ ReadBands(self.n_jobs) # {}
          /\ LET arr == [l \in 0..(info.n_labels - 1) |-> [r \in 0..(n_rows - 1) |->
                           [c \in 0..(n_cols - 1) |->
                               Sanitize(StepArray(step, self.n_jobs, l, r, c))]]]
                 cells == {<<l, r, c>> : l \in 0..(info.n_labels - 1),
                                         r \in 0..(n_rows - 1), c \in 0..(n_cols - 1)}
                 at == [k \in {StackIndex(step, x[1], x[2], x[3]) : x \in cells} |->
                            LET x == CHOOSE y \in cells : StackIndex(step, y[1], y[2], y[3]) = k
                            IN  arr[x[1]][x[2]][x[3]]]
                 top == CHOOSE m \in {at[k] : k \in DOMAIN at} :
                            \A k \in DOMAIN at : ~RLess(m, at[k])
             IN  /\ d_stack' = [k \in DOMAIN d_stack |-> IF k \in DOMAIN at THEN at[k] ELSE d_stack[k]]
                 /\ block_max' = RMax(block_max, top)
          /\ bands_read' = ReadBands(self.n_jobs)
          /\ raster_io' = raster_io \cup {"read"}
          /\ loaded' = loaded \cup {<<i, j>>}
          /\ step' = step + 1
          /\ pc' = IF step + 1 = info.n_steps THEN "check_max" ELSE pc
          /\ err' = err
       \/ /\ Raise("IOError")
          /\ UNCHANGED <<d_stack, block_max, bands_read, raster_io, loaded, step>>
    /\ UNCHANGED <<config, disk, info, transition_matrix, handles, i, j, n_rows,
                   n_cols, n_samples, layer, pending, results, hmm_results,
                   skipped, dispatched, wrote, start_markers, start_out, prev>>
    /\ UNCHANGED scratch

(* line 278: block_max == 0 *)
NoDataBlockNever == FALSE
NoDataBlock == block_max = Zero

(* lines 278-281 *)
CheckMax ==
    /\ pc = "check_max"
    /\ IF NoDataBlock
       THEN Continue
       ELSE pc' = "pool" /\ UNCHANGED <<i, j, n_rows>>
    /\ UNCHANGED <<config, disk, err, info, transition_matrix, handles, n_cols,
                   n_samples, step, layer, d_stack, block_max, pending, results,
                   hmm_results, bands_read, history>>
    /\ UNCHANGED scratch

(* line 68: d_stack[n_sample::n_samples].reshape(n_steps, n_labels) *)
time_series(n_sample) ==
    [t \in 0..(info.n_steps - 1) |-> [l \in 0..(info.n_labels - 1) |->
        d_stack[n_sample + (t * info.n_labels + l) * n_samples]]]

(* forward_backward(n_sample), lines 68-101, on the globals of the worker  *)
(* process that runs the task                                              *)
forward_backward(n_sample, worker) ==
    forward_backward_on(forward[worker], backward[worker], time_series(n_sample),
                        transition_matrix, MTranspose(transition_matrix))

(* What the buffers forward and backward of lines 232-233 may hold: they   *)
(* are never assigned in the parent process.                               *)
GarbageValues == {One, NaN}

(* line 291: multi.Pool(processes) raises ValueError when processes < 1,   *)
(* and else starts the worker processes, each with a copy of the globals   *)
(* as they are at this line; line 292: pool.map hands one task per sample  *)
(* to the workers.                                                         *)
PoolMap ==
    /\ pc = "pool"
    /\ IF self.n_jobs < 1
       THEN Raise("PoolSize") /\ UNCHANGED <<pending, results, dispatched, scratch>>
       ELSE /\ pending' = 0..(n_samples - 1)
            /\ \E g \in GarbageValues :
                  /\ forward' = [w \in 1..self.n_jobs |->
                                    EmptyBuffer(info.n_steps, info.n_labels, g)]
                  /\ backward' = forward'
            /\ results' = <<>>
            /\ dispatched' = dispatched \cup {<<<<i, j>>, n>> : n \in 0..(n_samples - 1)}
            /\ pc' = "map"
            /\ err' = err
    /\ UNCHANGED <<config, disk, info, transition_matrix, handles, i, j, n_rows,
                   n_cols, n_samples, step, layer, d_stack, block_max, hmm_results,
                   bands_read, raster_io, skipped, loaded, wrote, start_markers, start_out, prev>>

(* line 292: an exception of a task is re-raised by pool.map in the caller *)
TaskFailureRetried ==
    /\ err' = "WorkerError"
    /\ pc' = "pool"
    /\ forward' = <<>> /\ backward' = <<>>
    /\ UNCHANGED <<pending, results>>

TaskFailure ==
    /\ Raise("WorkerError")
    /\ forward' = <<>> /\ backward' = <<>>
    /\ UNCHANGED <<pending, results>>

(* One task of pool.map is run by one of the workers and returns, in       *)
(* whatever order the workers take the tasks, or raises, which pool.map    *)
(* re-raises in the caller.                                                *)
PixelTask ==
    /\ pc = "map"
    /\ \/ \E n \in pending : \E worker \in DOMAIN forward :
             \E task \in {forward_backward(n, worker)} :
                 /\ results' = [k \in (DOMAIN results) \cup {n} |->
                                   IF k = n THEN task.result ELSE results[k]]
                 /\ forward' = [forward EXCEPT ![worker] = task.forward]
                 /\ backward' = [backward EXCEPT ![worker] = task.backward]
                 /\ pending' = pending \ {n}
                 /\ pc' = IF pending = {n} THEN "collect" ELSE pc
                 /\ err' = err
       \/ /\ pending # {}
          /\ TaskFailure
    /\ UNCHANGED <<config, disk, info, transition_matrix, handles, i, j, n_rows,
                   n_cols, n_samples, step, layer, d_stack, block_max, hmm_results,
                   bands_read, history>>

(* lines 303-307: np.asarray(hmm_results).T.reshape(n_steps, n_labels,     *)
(* n_rows, n_cols).  The list holds [sample][label][step]; its transpose   *)
(* is [step][label][sample]; the reshape splits sample into row, column.   *)
ReshapeColumnMajor(res) ==
    [t \in 0..(info.n_steps - 1) |-> [l \in 0..(info.n_labels - 1) |->
        [r \in 0..(n_rows - 1) |-> [c \in 0..(n_cols - 1) |->
            res[c * n_rows + r][l][t]]]]]

Reshape(res) ==
    [t \in 0..(info.n_steps - 1) |-> [l \in 0..(info.n_labels - 1) |->
        [r \in 0..(n_rows - 1) |-> [c \in 0..(n_cols - 1) |->
            res[r * n_cols + c][l][t]]]]]

(* lines 293-307: the pool is closed, its workers end *)
Collect ==
    /\ pc = "collect"
    /\ hmm_results' = Reshape(results)
    /\ forward' = <<>> /\ backward' = <<>>
    /\ step' = 0
    /\ layer' = 0
    /\ pc' = "write"
    /\ UNCHANGED <<config, disk, err, info, transition_matrix, handles, i, j,
                   n_rows, n_cols, n_samples, d_stack, block_max, pending, results,
                   bands_read, history>>

(* hmm_sub.argmax(axis=0): the first label that holds the maximum *)
argmax(v) ==
    CHOOSE l \in DOMAIN v :
        /\ \A m \in DOMAIN v : ~RLess(v[l], v[m])
        /\ \A m \in DOMAIN v : m < l => RLess(v[m], v[l])

(* lines 329-337: the code written for a label index.  predictions is a    *)
(* uint8 array of zeros that takes real_class where argmax = class_index.  *)
ClassCodeNoRemap(a) == Rat(a, 1)

ClassCode(a) ==
    IF self.class_list_is_list
    THEN IF a + 1 \in DOMAIN ClassList THEN <<ClassList[a + 1] % 256, 1>> ELSE Zero
    ELSE Rat(a, 1)

(* lines 327-337: the array written in class-assignment mode *)
Predictions(hmm_sub) ==
    [r \in 0..(n_rows - 1) |-> [c \in 0..(n_cols - 1) |->
        ClassCode(argmax([l \in DOMAIN hmm_sub |-> hmm_sub[l][r][c]]))]]

(* out_rst.write_array(array, i, j, band): the window of the band at the   *)
(* block's offsets takes the array's values.                               *)
write_array_at_origin(raster, array, band) ==
    [raster EXCEPT ![band] =
        [r \in DOMAIN raster[band] |-> [c \in DOMAIN raster[band][r] |->
            IF r \in DOMAIN array /\ c \in DOMAIN array[r]
            THEN array[r][c]
            ELSE raster[band][r][c]]]]

write_array(raster, array, band) ==
    [raster EXCEPT ![band] =
        [r \in DOMAIN raster[band] |-> [c \in DOMAIN raster[band][r] |->
            IF r - i \in DOMAIN array /\ c - j \in DOMAIN array[r - i]
            THEN array[r - i][c - j]
            ELSE raster[band][r][c]]]]

(* line 315: the marker follows the last turn of `for step in range(0, n_steps)` *)
WriteLoopEndsAfterFirstStep(next_step) == next_step >= 1
WriteLoopEnds(next_step) == next_step = info.n_steps

(* lines 315-358: one write_array and close_band of the write loops *)
WriteBand ==
    /\ pc = "write"
    /\ LET band == IF self.assign_class THEN 1 ELSE layer + 1
           array == IF self.assign_class THEN Predictions(hmm_results[step])
                    ELSE hmm_results[step][layer]
           last_of_step == self.assign_class \/ layer + 1 = info.n_labels
       IN  \/ /\ out' = [out EXCEPT ![step] = write_array(out[step], array, band)]
              /\ wrote' = wrote \cup {<<<<i, j>>, step, band>>}
              /\ raster_io' = raster_io \cup {"write"}
              /\ layer' = IF last_of_step THEN 0 ELSE layer + 1
              /\ step' = IF last_of_step THEN step + 1 ELSE step
              /\ pc' = IF last_of_step /\ WriteLoopEnds(step + 1) THEN "marker_open" ELSE pc
              /\ err' = err
           \/ /\ Raise("IOError")
              /\ UNCHANGED <<out, wrote, raster_io, layer, step>>
    /\ UNCHANGED <<config, markers, info, transition_matrix, handles, i, j, n_rows,
                   n_cols, n_samples, d_stack, block_max, pending, results, hmm_results,
                   bands_read, skipped, loaded, dispatched, start_markers, start_out, prev>>
    /\ UNCHANGED scratch

(* line 360: open(hmm_block_tracker, 'wb') creates the marker file *)
MarkerOpen ==
    /\ pc = "marker_open"
    /\ \/ /\ markers' = markers \cup {hmm_block_tracker}
          /\ pc' = "marker_write"
          /\ err' = err
       \/ /\ Raise("IOError")
          /\ UNCHANGED markers
    /\ UNCHANGED <<config, out, info, transition_matrix, handles, block, history>>
    /\ UNCHANGED scratch

(* line 361: btxt.write('complete'), then the file is closed and the loop  *)
(* goes on.  The write can raise (a str written to a binary file raises    *)
(* TypeError under Python 3; the disk can be full): the file exists then.  *)
MarkerWrite ==
    /\ pc = "marker_write"
    /\ \/ Continue /\ err' = err
       \/ Raise("IOError") /\ UNCHANGED <<i, j, n_rows>>
    /\ UNCHANGED <<config, disk, info, transition_matrix, handles, n_cols,
                   n_samples, step, layer, d_stack, block_max, pending, results,
                   hmm_results, bands_read, history>>
    /\ UNCHANGED scratch

(* ModelHMM.close, lines 367-381, called at line 363 *)
Close ==
    /\ pc = "close"
    /\ image_infos' = [k \in DOMAIN image_infos |-> "closed"]
    /\ o_infos' = [k \in DOMAIN o_infos |-> "closed"]
    /\ pc' = "done"
    /\ UNCHANGED <<config, disk, err, info, transition_matrix, block, history>>
    /\ UNCHANGED scratch

(* The process is stopped from outside at any point of the call, and its   *)
(* workers with it.                                                        *)
Interrupt ==
    /\ pc \notin Terminal
    /\ pc' = "interrupted"
    /\ forward' = <<>> /\ backward' = <<>>
    /\ UNCHANGED <<config, disk, err, info, transition_matrix, handles, block, history>>

(* fit_predict is called again, in a new process, on the same inputs, the  *)
(* same attributes and the same output directory, any number of times.     *)
Rerun ==
    /\ pc \in Terminal
    /\ start_markers' = markers
    /\ start_out' = out
    /\ prev' = [pc |-> pc, err |-> err,
                block |-> IF err = "WorkerError" THEN <<i, j>> ELSE <<0, 0>>]
    /\ pc' = "fit_predict"
    /\ err' = ""
    /\ info' = [n_steps |-> 0, n_labels |-> 0, rows |-> 0, cols |-> 0]
    /\ transition_matrix' = <<>>
    /\ image_infos' = <<>>
    /\ o_infos' = <<>>
    /\ i' = 0 /\ j' = 0 /\ n_rows' = 0 /\ n_cols' = 0 /\ n_samples' = 0
    /\ step' = 0 /\ layer' = 0
    /\ d_stack' = <<>>
    /\ block_max' = Zero
    /\ pending' = {}
    /\ results' = <<>>
    /\ hmm_results' = <<>>
    /\ forward' = <<>> /\ backward' = <<>>
    /\ bands_read' = {}
    /\ raster_io' = {}
    /\ skipped' = {}
    /\ loaded' = {}
    /\ dispatched' = {}
    /\ wrote' = {}
    /\ UNCHANGED <<config, disk>>

Next ==
    \/ CheckData \/ RopenFirst \/ Validate \/ SetTransitionMatrix \/ OpenImage
    \/ SetupOutInfo \/ BlockFunc \/ VisitBlock \/ ReadStep \/ CheckMax
    \/ PoolMap \/ PixelTask \/ Collect \/ WriteBand \/ MarkerOpen \/ MarkerWrite
    \/ Close \/ Interrupt \/ Rerun
Spec == Init /\ [][Next]_vars

----------------------------------------------------------------------------
(* What one uninterrupted call leaves in the output rasters, pixel by      *)
(* pixel, from the input rasters and the attributes alone.                 *)

(* The blocks of an extent tiled with block size bs, and the window of one *)
BlocksOf(bs) ==
    {b \in (0..(images.rows - 1)) \X (0..(images.cols - 1)) : b[1] % bs = 0 /\ b[2] % bs = 0}
WindowOf(b, bs) ==
    (b[1]..(b[1] + n_rows_cols(b[1], bs, images.rows) - 1))
        \X (b[2]..(b[2] + n_rows_cols(b[2], bs, images.cols) - 1))
AllBlocks == BlocksOf(self.block_size)
Window(b) == WindowOf(b, self.block_size)

(* The time series the call loads for the pixel <<r, c>> of the raster *)
PixelSeries(r, c) ==
    [t \in 0..(NSteps - 1) |-> [l \in 0..(NLabels - 1) |->
        Sanitize(ImgValue(images, t, IF self.n_jobs = 0 - 1 THEN l ELSE self.n_jobs - 1, r, c))]]

NoData(b, bs) == \A x \in WindowOf(b, bs) : TsMax(PixelSeries(x[1], x[2])) = Zero

Smoothed(r, c) ==
    LET tm == TransitionMatrixOf(NLabels, self.transition_prior)
    IN  forward_backward_ts(PixelSeries(r, c), tm, MTranspose(tm))

FinalBands == IF self.assign_class THEN 1 ELSE NLabels

ExpectedOut(bs) ==
    [t \in 0..(NSteps - 1) |-> [band \in 1..FinalBands |->
        [r \in 0..(images.rows - 1) |-> [c \in 0..(images.cols - 1) |->
            LET b == CHOOSE y \in BlocksOf(bs) : <<r, c>> \in WindowOf(y, bs)
                fb == Smoothed(r, c)
            IN  IF NoData(b, bs) THEN Unwritten
                ELSE IF self.assign_class
                THEN ClassCode(argmax([l \in 0..(NLabels - 1) |-> fb[l][t]]))
                ELSE fb[band - 1][t]]]]]

(* The value of a cell of the output rasters o, Unwritten while the raster *)
(* does not exist                                                          *)
Cell(o, t, band, x) == IF o[t] = <<>> THEN Unwritten ELSE o[t][band][x[1]][x[2]]

(* The blocks the loops of this call have gone past *)
Visited(b) ==
    \/ pc \in {"close", "done"}
    \/ /\ pc \in {"block", "read", "check_max", "pool", "map", "collect", "write",
                  "marker_open", "marker_write"}
       /\ (b[1] < i \/ (b[1] = i /\ b[2] < j))

----------------------------------------------------------------------------
(* C1: in every reachable state, whatever failed or was interrupted, a     *)
(* block whose completion marker exists has had every output band of every *)
(* time step written over its whole window.                                *)
C1_MarkerAfterWrites ==
    \A b \in markers : \A t \in 0..(NSteps - 1) :
        /\ out[t] # <<>>
        /\ \A band \in 1..FinalBands : \A x \in Window(b) :
               out[t][band][x[1]][x[2]] # Unwritten

C1_Witness ==
    /\ pc = "interrupted"
    /\ markers # {}
    /\ \E b \in AllBlocks \ markers : \E w \in wrote : w[1] = b

(* C2: a call that runs to its end after an interrupted call, on the same  *)
(* inputs and output directory, leaves the output rasters one              *)
(* uninterrupted call leaves, skips exactly the blocks whose markers the   *)
(* interrupted call left and loads every other block.                      *)
C2_Resumable ==
    /\ (pc = "done" /\ prev.pc = "") => out = ExpectedOut(self.block_size)
    /\ (pc = "done" /\ prev.pc = "interrupted") =>
          /\ out = ExpectedOut(self.block_size)
          /\ skipped = start_markers
          /\ loaded = AllBlocks \ start_markers

C2_Witness ==
    /\ pc = "done" /\ prev.pc = "interrupted"
    /\ start_markers # {}
    /\ wrote # {}
    /\ Cardinality(AllBlocks) > Cardinality(start_markers) + 1

(* C3: a block whose marker exists when the loops reach it is skipped: no  *)
(* window of it is read, no task of it dispatched, no band of it written,  *)
(* its marker stays and its part of the output rasters stays as it was.    *)
C3_CompletedSkipped ==
    \A b \in start_markers \cup skipped :
        /\ b \in markers
        /\ b \in start_markers
        /\ Visited(b) => b \in skipped
        /\ b \notin loaded
        /\ \A d \in dispatched : d[1] # b
        /\ \A w \in wrote : w[1] # b
        /\ \A t \in 0..(NSteps - 1) : \A band \in 1..FinalBands : \A x \in Window(b) :
               Cell(out, t, band, x) = Cell(start_out, t, band, x)

C3_Witness ==
    /\ pc = "done"
    /\ skipped # {}
    /\ wrote # {}

(* C4: a second call after a call that ran to its end leaves the output    *)
(* rasters as they were and dispatches and writes nothing.  As first       *)
(* stated: every block is marked and none is loaded again.                 *)
C4_SecondRunAllMarked ==
    (pc = "done" /\ prev.pc = "done") =>
        /\ out = start_out
        /\ skipped = AllBlocks
        /\ loaded = {}
        /\ dispatched = {}
        /\ wrote = {}

(* C4, amended: every block that holds data is marked and is neither       *)
(* loaded, smoothed nor written again; a block without data has no marker  *)
(* and is loaded again, and then neither smoothed nor written.             *)
C4_SecondRunIdempotent ==
    (pc = "done" /\ prev.pc = "done") =>
        /\ out = start_out
        /\ out = ExpectedOut(self.block_size)
        /\ markers = start_markers
        /\ skipped = markers
        /\ markers = {b \in AllBlocks : ~NoData(b, self.block_size)}
        /\ loaded = AllBlocks \ markers
        /\ dispatched = {}
        /\ wrote = {}

C4_Witness ==
    /\ pc = "done" /\ prev.pc = "done"
    /\ Cardinality(skipped) > 1
    /\ loaded # {}

(* C5: a call started with no markers, with a block size smaller than the  *)
(* extent, that runs to its end creates one marker per block and leaves    *)
(* the output rasters of a call whose single block covers the extent.      *)
SingleBlock == images.rows + images.cols

C5_TilingIndependent ==
    (pc = "done" /\ start_markers = {} /\ Cardinality(AllBlocks) > 1) =>
        /\ markers = AllBlocks
        /\ out = ExpectedOut(SingleBlock)

(* C5, amended: the same, for a raster of which every block holds data.    *)
C5_TilingIndependentWithData ==
    (/\ pc = "done" /\ start_markers = {} /\ Cardinality(AllBlocks) > 1
     /\ \A b \in AllBlocks : ~NoData(b, self.block_size)) =>
        /\ markers = AllBlocks
        /\ out = ExpectedOut(SingleBlock)

C5_Witness ==
    /\ pc = "done" /\ start_markers = {}
    /\ Cardinality(AllBlocks) = 4
    /\ Cardinality(markers) = 4
    /\ self.assign_class

(* C6: a task of a block that fails ends the call with that failure: the   *)
(* block has no band written in this call and no marker, its part of the   *)
(* output is as the call found it, and the next call loads it again.       *)
C6_TaskFailureAbortsBlock ==
    /\ err = "WorkerError" =>
          /\ pc = "raised"
          /\ <<i, j>> \notin markers
          /\ \A w \in wrote : w[1] # <<i, j>>
          /\ \A t \in 0..(NSteps - 1) : \A band \in 1..FinalBands : \A x \in Window(<<i, j>>) :
                 Cell(out, t, band, x) = Cell(start_out, t, band, x)
    /\ prev.err = "WorkerError" =>
          /\ prev.block \notin start_markers
          /\ Visited(prev.block) => prev.block \in loaded

C6_Witness ==
    /\ err = "WorkerError"
    /\ wrote # {}
    /\ prev.err = "WorkerError"

(* C7: when a call has ended, normally or with an exception, every handle  *)
(* it opened is closed.                                                    *)
C7_HandlesClosed ==
    pc \in {"done", "raised"} =>
        /\ \A k \in DOMAIN image_infos : image_infos[k] = "closed"
        /\ \A k \in DOMAIN o_infos : o_infos[k] = "closed"

(* C8: an input-validation error is raised before any raster I/O.          *)
ValidationErrors == {"EmptyInput", "BadLabels", "BadRows", "BadCols"}

C8_ValidationBeforeIO ==
    err \in ValidationErrors => raster_io = {}

(* C8, amended: the empty image list is reported before any raster I/O;    *)
(* a descriptor field that is no integer is reported after the first image *)
(* has been opened for its descriptor and closed, and before any raster of *)
(* the stack is opened, any window read, any output created or written.    *)
C8_ValidationBeforeStackIO ==
    /\ err = "EmptyInput" => raster_io = {}
    /\ err \in ValidationErrors \ {"EmptyInput"} => raster_io = {"open"}
    /\ (self.n_images = 0 \/ images.hdr # "ok") =>
          /\ raster_io \subseteq {"open"}
          /\ image_infos = <<>> /\ o_infos = <<>>
          /\ out = start_out /\ loaded = {} /\ wrote = {}
          /\ pc \notin {"transition", "open_images", "setup_out"}

C8_Witness ==
    /\ pc = "raised"
    /\ err \in {"BadLabels", "BadRows", "BadCols"}
    /\ prev.pc = "raised"

(* C10: every window read for a block covers all n_labels bands.           *)
C10_AllBandsRead ==
    bands_read # {} => bands_read = 1..info.n_labels

----------------------------------------------------------------------------
(* ModelHMM._transition_matrix on its own: every number of labels up to    *)
(* MaxLabelsTM, with every scalar prior a/b in (0, 1) with b <= MaxDen and *)
(* with every array prior of a shape up to MaxLabelsTM x MaxLabelsTM.      *)

MaxLabelsTM == 4
MaxDen == 8

(* An array prior of shape (a, b); its rows sum to 1 *)
PriorArray(a, b) == [r \in 0..(a - 1) |-> [c \in 0..(b - 1) |-> Rat(1, b)]]

ScalarPriors == {q \in {Rat(a, b) : a \in 1..(MaxDen - 1), b \in 2..MaxDen} : RLess(q, One)}
ArrayPriors == {PriorArray(a, b) : a \in 1..MaxLabelsTM, b \in 1..MaxLabelsTM}

InitTM ==
    /\ images = [hdr |-> "ok", rows |-> 1, cols |-> 1, zr |-> 0, zc |-> 0]
    /\ \E q \in ScalarPriors \cup ArrayPriors :
          self = [n_images |-> NSteps, n_jobs |-> 1, block_size |-> 1,
                  assign_class |-> FALSE, class_list_is_list |-> FALSE,
                  transition_prior |-> q]
    /\ markers = {}
    /\ out = [t \in 0..(NSteps - 1) |-> <<>>]
    /\ start_markers = {}
    /\ start_out = out
    /\ prev = [pc |-> "", err |-> "", block |-> <<0, 0>>]
    /\ err = ""
    /\ transition_matrix = <<>>
    /\ image_infos = <<>>
    /\ o_infos = <<>>
    /\ i = 0 /\ j = 0 /\ n_rows = 0 /\ n_cols = 0 /\ n_samples = 0
    /\ step = 0 /\ layer = 0
    /\ d_stack = <<>>
    /\ block_max = Zero
    /\ pending = {}
    /\ results = <<>>
    /\ hmm_results = <<>>
    /\ forward = <<>> /\ backward = <<>>
    /\ bands_read = {}
    /\ raster_io = {"open"}
    /\ skipped = {}
    /\ loaded = {}
    /\ dispatched = {}
    /\ wrote = {}
    /\ pc = "transition"
    /\ info \in { [n_steps |-> NSteps, n_labels |-> L, rows |-> 1, cols |-> 1] :
                    L \in 1..MaxLabelsTM }

NextTM == SetTransitionMatrix

SpecTM == InitTM /\ [][NextTM]_vars

(* C9: every row of the matrix built from (L, p) sums to 1.                *)
C9_RowsSumToOne ==
    (pc = "open_images" /\ ~IsNdarray(self.transition_prior)) =>
        \A r \in DOMAIN transition_matrix : VSum(transition_matrix[r]) = One

(* C9, amended: the diagonal is 1-p, every other entry is p, and so every  *)
(* row sums to 1 + (L-2)p, which is 1 for L = 2 and for no other L.        *)
C9_RowSums ==
    (pc = "open_images" /\ ~IsNdarray(self.transition_prior)) =>
        LET L == info.n_labels
            p == self.transition_prior
        IN  /\ DOMAIN transition_matrix = 0..(L - 1)
            /\ \A r \in 0..(L - 1) :
                  /\ DOMAIN transition_matrix[r] = 0..(L - 1)
                  /\ \A c \in 0..(L - 1) :
                        transition_matrix[r][c] = IF r = c THEN RSub(One, p) ELSE p
                  /\ VSum(transition_matrix[r]) = RAdd(One, RMul(Rat(L - 2, 1), p))
                  /\ (VSum(transition_matrix[r]) = One) = (L = 2)

C9_Witness ==
    /\ pc = "open_images"
    /\ info.n_labels = 3
    /\ self.transition_prior = Rat(1, 8)

----------------------------------------------------------------------------
(* C11: a call with n_jobs <= 0 uses every core: it creates its worker     *)
(* pool and smooths the blocks that hold data, and so never ends at the    *)
(* creation of the pool; when it runs to its end every block that holds    *)
(* data is marked.                                                         *)
C11_AllCoresAccepted ==
    self.n_jobs <= 0 =>
        /\ err # "PoolSize"
        /\ pc = "done" => \A b \in AllBlocks : ~NoData(b, self.block_size) => b \in markers

IsSquareOf(m, L) ==
    /\ DOMAIN m = 0..(L - 1)
    /\ \A r \in DOMAIN m : DOMAIN m[r] = 0..(L - 1)

(* C12: an array prior is validated before it is used: one whose shape is  *)
(* not n_labels x n_labels is rejected, the call raises and the array      *)
(* never becomes the transition matrix.                                    *)
C12_ArrayPriorValidated ==
    (IsNdarray(self.transition_prior) /\ ~IsSquareOf(self.transition_prior, info.n_labels)) =>
        /\ transition_matrix # self.transition_prior
        /\ pc \in {"transition", "raised"}

----------------------------------------------------------------------------
InPool == pc \in {"pool", "map", "collect", "write", "marker_open", "marker_write"}

(* C13: a block whose loaded values, NaN and Inf replaced by 0, are all 0  *)
(* has no task dispatched, no band written and no marker, its part of the  *)
(* output rasters stays as the call found it, and the loops go on with the *)
(* next block: a call that runs to its end has visited every block.        *)
C13_NoDataBlockSkipped ==
    /\ \A b \in AllBlocks : NoData(b, self.block_size) =>
          /\ b \notin markers
          /\ \A d \in dispatched : d[1] # b
          /\ \A w \in wrote : w[1] # b
          /\ \A t \in 0..(NSteps - 1) : \A band \in 1..FinalBands : \A x \in Window(b) :
                 Cell(out, t, band, x) = Cell(start_out, t, band, x)
          /\ (InPool => b # <<i, j>>)
          /\ (err = "PoolSize" => b # <<i, j>>)
    /\ (pc = "check_max" /\ block_max = Zero) => NoData(<<i, j>>, self.block_size)
    /\ pc = "done" => loaded \cup skipped = AllBlocks

C13_Witness ==
    /\ pc = "done"
    /\ \E b \in loaded : /\ NoData(b, self.block_size)
                         /\ \E w \in wrote : b[1] < w[1][1] \/ (b[1] = w[1][1] /\ b[2] < w[1][2])

----------------------------------------------------------------------------
(* The loops of ModelHMM._block_func on their own: every extent up to      *)
(* MaxExtent x MaxExtent tiled with every block size up to MaxTile.  The   *)
(* rasters hold no data, so that every block is loaded and then left at    *)
(* line 279.                                                               *)

MaxExtent == 5
MaxTile == 4

InitTiles ==
    /\ \E nr \in 1..MaxExtent, nc \in 1..MaxExtent :
          /\ images = [hdr |-> "ok", rows |-> nr, cols |-> nc, zr |-> nr, zc |-> nc]
          /\ info = [n_steps |-> NSteps, n_labels |-> NLabels, rows |-> nr, cols |-> nc]
    /\ \E bs \in 1..MaxTile :
          self = [n_images |-> NSteps, n_jobs |-> 1, block_size |-> bs,
                  assign_class |-> FALSE, class_list_is_list |-> FALSE,
                  transition_prior |-> TransitionPrior]
    /\ markers = {}
    /\ out = [t \in 0..(NSteps - 1) |-> NewRaster]
    /\ start_markers = {}
    /\ start_out = out
    /\ prev = [pc |-> "", err |-> "", block |-> <<0, 0>>]
    /\ err = ""
    /\ transition_matrix = TransitionMatrixOf(NLabels, TransitionPrior)
    /\ image_infos = [k \in 1..NSteps |-> "open"]
    /\ o_infos = [k \in 1..NSteps |-> "open"]
    /\ i = 0 /\ j = 0 /\ n_rows = 0 /\ n_cols = 0 /\ n_samples = 0
    /\ step = 0 /\ layer = 0
    /\ d_stack = <<>>
    /\ block_max = Zero
    /\ pending = {}
    /\ results = <<>>
    /\ hmm_results = <<>>
    /\ forward = <<>> /\ backward = <<>>
    /\ bands_read = {}
    /\ raster_io = {"open", "create"}
    /\ skipped = {}
    /\ loaded = {}
    /\ dispatched = {}
    /\ wrote = {}
    /\ pc = "block_func"

NextTiles == BlockFunc \/ VisitBlock \/ ReadStep \/ CheckMax \/ Close

SpecTiles == InitTiles /\ [][NextTiles]_vars

(* The tiling of the extent: the origins are the multiples of the block    *)
(* size inside the extent, a tile holds the pixels of the extent less than *)
(* a block size beyond its origin in both dimensions.                      *)
TileOrigins ==
    {o \in (0..(images.rows - 1)) \X (0..(images.cols - 1)) :
        \E a, b \in 0..MaxExtent : o = <<a * self.block_size, b * self.block_size>>}
Extent == (0..(images.rows - 1)) \X (0..(images.cols - 1))
RowMajorBefore(a, b) == a[1] < b[1] \/ (a[1] = b[1] /\ a[2] < b[2])
TileOf(o) == (o[1]..(o[1] + self.block_size - 1)) \X (o[2]..(o[2] + self.block_size - 1))
CurrentTile == (i..(i + n_rows - 1)) \X (j..(j + n_cols - 1))

(* C14: the blocks the loops visit partition the extent: every pixel lies  *)
(* in exactly one block, no block reaches past the extent, every edge is   *)
(* at most the block size and only the last block of a dimension is        *)
(* smaller; the blocks are visited once each, in row-major order.          *)
C14_TilesPartition ==
    /\ pc \in {"block", "read", "check_max"} =>
          /\ <<i, j>> \in TileOrigins
          /\ loaded \ {<<i, j>>} = {o \in TileOrigins : RowMajorBefore(o, <<i, j>>)}
    /\ pc \in {"read", "check_max"} =>
          /\ CurrentTile \subseteq Extent
          /\ n_rows \in 1..self.block_size /\ n_cols \in 1..self.block_size
          /\ (n_rows < self.block_size => i + n_rows = images.rows)
          /\ (n_cols < self.block_size => j + n_cols = images.cols)
          /\ n_samples = Cardinality(CurrentTile)
          /\ CurrentTile = {x \in Extent : x \in TileOf(<<i, j>>)}
    /\ pc \in {"close", "done"} =>
          /\ loaded = TileOrigins
          /\ \A x \in Extent : Cardinality({o \in loaded : x \in TileOf(o)}) = 1

C14_Witness ==
    /\ pc = "done"
    /\ images.rows = 5 /\ images.cols = 4 /\ self.block_size = 3
    /\ Cardinality(loaded) = 4

----------------------------------------------------------------------------
(* The write loops of ModelHMM._block_func on their own, in class-         *)
(* assignment mode, on one block of two pixels.  The beliefs of a pixel at *)
(* a time step are drawn from: one label ahead of the others, for every    *)
(* label; all labels equal; all labels 0.                                  *)
BeliefPatterns == (0..(NLabels - 1)) \cup {NLabels, NLabels + 1}

BeliefOf(pattern, l) ==
    IF pattern = NLabels + 1 THEN Zero
    ELSE IF pattern = NLabels THEN Rat(1, NLabels)
    ELSE IF l = pattern THEN Rat(3, 4)
    ELSE Rat(1, 4 * (NLabels - 1))

InitWrite ==
    /\ images = [hdr |-> "ok", rows |-> 1, cols |-> 2, zr |-> 0, zc |-> 0]
    /\ info = [n_steps |-> NSteps, n_labels |-> NLabels, rows |-> 1, cols |-> 2]
    /\ \E cl \in BOOLEAN :
          self = [n_images |-> NSteps, n_jobs |-> 1, block_size |-> 2,
                  assign_class |-> TRUE, class_list_is_list |-> cl,
                  transition_prior |-> TransitionPrior]
    /\ \E w \in [(0..(NSteps - 1)) \X (0..1) -> BeliefPatterns] :
          hmm_results = [t \in 0..(NSteps - 1) |-> [l \in 0..(NLabels - 1) |->
                            [r \in {0} |-> [c \in 0..1 |-> BeliefOf(w[<<t, c>>], l)]]]]
    /\ markers = {}
    /\ out = [t \in 0..(NSteps - 1) |-> [b \in {1} |-> [r \in {0} |-> [c \in 0..1 |-> Unwritten]]]]
    /\ start_markers = {}
    /\ start_out = out
    /\ prev = [pc |-> "", err |-> "", block |-> <<0, 0>>]
    /\ err = ""
    /\ transition_matrix = TransitionMatrixOf(NLabels, TransitionPrior)
    /\ image_infos = [k \in 1..NSteps |-> "open"]
    /\ o_infos = [k \in 1..NSteps |-> "open"]
    /\ i = 0 /\ j = 0 /\ n_rows = 1 /\ n_cols = 2 /\ n_samples = 2
    /\ step = 0 /\ layer = 0
    /\ d_stack = <<>>
    /\ block_max = One
    /\ pending = {}
    /\ results = <<>>
    /\ forward = <<>> /\ backward = <<>>
    /\ bands_read = {1}
    /\ raster_io = {"open", "create", "read"}
    /\ skipped = {}
    /\ loaded = {<<0, 0>>}
    /\ dispatched = {<<<<0, 0>>, 0>>, <<<<0, 0>>, 1>>}
    /\ wrote = {}
    /\ pc = "write"

NextWrite == WriteBand \/ MarkerOpen \/ MarkerWrite \/ Close

SpecWrite == InitWrite /\ [][NextWrite]_vars

(* C15: with assign_class and a class list of n_labels codes, the code     *)
(* written to band 1 for a time step and a pixel of the block is the class *)
(* list's entry for the first label that holds the largest belief of the   *)
(* pixel at that time step.  The codes of the list fit a byte, as the      *)
(* output band does.                                                       *)
C15_ClassCodeWritten ==
    (/\ self.assign_class /\ self.class_list_is_list
     /\ pc \in {"write", "marker_open", "marker_write"}) =>
        \A t \in 0..(NSteps - 1) : (pc = "write" => t < step) =>
            \A r \in 0..(n_rows - 1) : \A c \in 0..(n_cols - 1) :
                \E l \in 0..(NLabels - 1) :
                    /\ \A m \in 0..(NLabels - 1) :
                          ~RLess(hmm_results[t][l][r][c], hmm_results[t][m][r][c])
                    /\ \A m \in 0..(l - 1) :
                          RLess(hmm_results[t][m][r][c], hmm_results[t][l][r][c])
                    /\ out[t][1][i + r][j + c] = <<ClassList[l + 1], 1>>

C15_Witness ==
    /\ self.assign_class /\ self.class_list_is_list
    /\ pc = "marker_open"
    /\ out[0][1][0][0] = <<ClassList[NLabels], 1>>
    /\ out[0][1][0][1] = <<ClassList[1], 1>>
    /\ out[1][1][0][0] # out[0][1][0][0]
    /\ hmm_results[1][0][0][1] = hmm_results[1][1][0][1]

----------------------------------------------------------------------------
(* One task of the pool on its own: a block of one pixel whose time series *)
(* takes every combination of the values of FBValues that is not all 0     *)
(* (a block that is all 0 never reaches the pool), in a worker whose       *)
(* buffers hold any of the garbage values.                                 *)
FBValues == {Zero, Rat(1, 4), One}

InitFB ==
    /\ images = [hdr |-> "ok", rows |-> 1, cols |-> 1, zr |-> 0, zc |-> 0]
    /\ info = [n_steps |-> NSteps, n_labels |-> NLabels, rows |-> 1, cols |-> 1]
    /\ self = [n_images |-> NSteps, n_jobs |-> 1, block_size |-> 1,
               assign_class |-> FALSE, class_list_is_list |-> FALSE,
               transition_prior |-> TransitionPrior]
    /\ d_stack \in [0..(NSteps * NLabels - 1) -> FBValues]
    /\ block_max = VMax(d_stack)
    /\ block_max # Zero
    /\ \E g \in GarbageValues :
          /\ forward = [w \in {1} |-> EmptyBuffer(NSteps, NLabels, g)]
          /\ backward = forward
    /\ markers = {}
    /\ out = [t \in 0..(NSteps - 1) |-> NewRaster]
    /\ start_markers = {}
    /\ start_out = out
    /\ prev = [pc |-> "", err |-> "", block |-> <<0, 0>>]
    /\ err = ""
    /\ transition_matrix = TransitionMatrixOf(NLabels, TransitionPrior)
    /\ image_infos = [k \in 1..NSteps |-> "open"]
    /\ o_infos = [k \in 1..NSteps |-> "open"]
    /\ i = 0 /\ j = 0 /\ n_rows = 1 /\ n_cols = 1 /\ n_samples = 1
    /\ step = NSteps /\ layer = 0
    /\ pending = {0}
    /\ results = <<>>
    /\ hmm_results = <<>>
    /\ bands_read = {1}
    /\ raster_io = {"open", "create", "read"}
    /\ skipped = {}
    /\ loaded = {<<0, 0>>}
    /\ dispatched = {<<<<0, 0>>, 0>>}
    /\ wrote = {}
    /\ pc = "map"

NextFB == PixelTask

SpecFB == InitFB /\ [][NextFB]_vars

(* C16: the belief returned for a time series that is not all 0 has, for   *)
(* every time step, a row that sums to 1, unless the product of the        *)
(* forward and the backward row of that time step is all 0, in which case  *)
(* the row is all 0; no entry comes from a division by zero.               *)
C16_BeliefRowsSumToOne ==
    pc = "collect" =>
        \A t \in 0..(NSteps - 1) :
            LET row == [l \in 0..(NLabels - 1) |-> results[0][l][t]]
                product == VMul(forward[1][t], backward[1][t])
            IN  /\ \A l \in 0..(NLabels - 1) : IsFinite(row[l])
                /\ IF \A l \in 0..(NLabels - 1) : product[l] = Zero
                   THEN \A l \in 0..(NLabels - 1) : row[l] = Zero
                   ELSE VSum(row) = One

C16_Witness ==
    /\ pc = "collect"
    /\ \A l \in 0..(NLabels - 1) : results[0][l][NSteps - 1] = Zero
    /\ \E k \in DOMAIN d_stack : d_stack[k] = Rat(1, 4)

----------------------------------------------------------------------------
(* C17: the belief computed for the pixel of flat index k of a block is    *)
(* the belief of the pixel at row k div n_cols and column k mod n_cols of  *)
(* the block, and the reassembled array holds it at that row and column,   *)
(* for every time step and label, whichever worker ran the task and in     *)
(* whatever order the tasks ended.                                         *)
C17_ReassemblyKeepsPosition ==
    /\ pc \in {"map", "collect"} =>
          \A k \in DOMAIN results :
              results[k] = Smoothed(i + (k \div n_cols), j + (k % n_cols))
    /\ pc \in {"write", "marker_open", "marker_write"} =>
          \A r \in 0..(n_rows - 1) : \A c \in 0..(n_cols - 1) :
              \A t \in 0..(NSteps - 1) : \A l \in 0..(NLabels - 1) :
                  hmm_results[t][l][r][c] = Smoothed(i + r, j + c)[l][t]

C17_Witness ==
    /\ pc = "write"
    /\ self.n_jobs = 2
    /\ n_rows = 2 /\ n_cols = 2
    /\ hmm_results[0][0][0][1] # hmm_results[0][0][1][0]

----------------------------------------------------------------------------
(* The tasks of one worker on a block of two pixels, for every number of   *)
(* time steps from 1 to NSteps: the first pixel holds no data or the same  *)
(* value everywhere, the second every combination of the values of         *)
(* ScratchValues, the block is not all 0, and the buffers of the worker    *)
(* start with any of the garbage values.                                   *)
ScratchValues == {Zero, One}
FirstPixelValues == {Zero, Rat(1, 4)}

InitScratch ==
    /\ images = [hdr |-> "ok", rows |-> 1, cols |-> 2, zr |-> 0, zc |-> 0]
    /\ \E T \in 1..NSteps :
          /\ info = [n_steps |-> T, n_labels |-> NLabels, rows |-> 1, cols |-> 2]
          /\ \E first \in FirstPixelValues :
             \E second \in [0..(T * NLabels - 1) -> ScratchValues] :
                d_stack = [k \in 0..(2 * T * NLabels - 1) |->
                              IF k % 2 = 0 THEN first ELSE second[k \div 2]]
          /\ \E g \in GarbageValues :
                /\ forward = [w \in {1} |-> EmptyBuffer(T, NLabels, g)]
                /\ backward = forward
          /\ self = [n_images |-> T, n_jobs |-> 1, block_size |-> 2,
                     assign_class |-> FALSE, class_list_is_list |-> FALSE,
                     transition_prior |-> TransitionPrior]
          /\ image_infos = [k \in 1..T |-> "open"]
          /\ o_infos = [k \in 1..T |-> "open"]
          /\ step = T
    /\ block_max = VMax(d_stack)
    /\ block_max # Zero
    /\ markers = {}
    /\ out = [t \in 0..(NSteps - 1) |-> <<>>]
    /\ start_markers = {}
    /\ start_out = out
    /\ prev = [pc |-> "", err |-> "", block |-> <<0, 0>>]
    /\ err = ""
    /\ transition_matrix = TransitionMatrixOf(NLabels, TransitionPrior)
    /\ i = 0 /\ j = 0 /\ n_rows = 1 /\ n_cols = 2 /\ n_samples = 2
    /\ layer = 0
    /\ pending = {0, 1}
    /\ results = <<>>
    /\ hmm_results = <<>>
    /\ bands_read = {1}
    /\ raster_io = {"open", "create", "read"}
    /\ skipped = {}
    /\ loaded = {<<0, 0>>}
    /\ dispatched = {<<<<0, 0>>, 0>>, <<<<0, 0>>, 1>>}
    /\ wrote = {}
    /\ pc = "map"

NextScratch == PixelTask

SpecScratch == InitScratch /\ [][NextScratch]_vars

(* C18: what a task returns does not depend on what the buffers forward    *)
(* and backward of its worker hold when it starts, be it what np.empty     *)
(* left or what an earlier task of the worker left: the task assigns every *)
(* row it reads before it reads it, for every n_steps >= 1.  Every result  *)
(* is what the task returns on buffers never assigned, and every task yet  *)
(* to run returns the same on the buffers of any worker as on buffers      *)
(* holding any garbage value.                                              *)
C18_TaskIndependentOfScratch ==
    pc \in {"map", "collect"} =>
        /\ \A k \in DOMAIN results :
              results[k] = forward_backward_ts(time_series(k), transition_matrix,
                                               MTranspose(transition_matrix))
        /\ \A n \in pending : \A w \in DOMAIN forward : \A g \in GarbageValues :
              forward_backward(n, w).result =
                  forward_backward_on(EmptyBuffer(info.n_steps, info.n_labels, g),
                                      EmptyBuffer(info.n_steps, info.n_labels, g),
                                      time_series(n), transition_matrix,
                                      MTranspose(transition_matrix)).result

C18_Witness ==
    /\ pc = "collect"
    /\ info.n_steps = 1
    /\ TsMax(time_series(0)) = Zero
    /\ TsMax(time_series(1)) # Zero
    /\ forward[1][0][0] # NaN

----------------------------------------------------------------------------
(* C19: the pool of a block exists only once the globals hold the block:   *)
(* whenever the pool is about to be created or its tasks run, d_stack is   *)
(* the flattened stack of every time step of the block, NaN and Inf        *)
(* replaced, n_samples is the number of pixels of the block, and the time  *)
(* series a task reads is that of its pixel of this block.                 *)
C19_PoolAfterSlab ==
    /\ forward # <<>> => pc \in {"map", "collect"}
    /\ \A d \in dispatched :
          d[1] \in loaded /\ (d[1] = <<i, j>> \/ RowMajorBefore(d[1], <<i, j>>))
    /\ pc \in {"pool", "map", "collect"} =>
          /\ (i..(i + n_rows - 1)) \X (j..(j + n_cols - 1)) = Window(<<i, j>>)
          /\ n_samples = Cardinality(Window(<<i, j>>))
          /\ DOMAIN d_stack = 0..(NSteps * NLabels * n_samples - 1)
          /\ \A t \in 0..(NSteps - 1) : \A l \in 0..(NLabels - 1) :
             \A r \in 0..(n_rows - 1) : \A c \in 0..(n_cols - 1) :
                d_stack[((t * NLabels + l) * n_rows + r) * n_cols + c]
                    = PixelSeries(i + r, j + c)[t][l]
          /\ \A n \in 0..(n_samples - 1) :
                time_series(n) = PixelSeries(i + (n \div n_cols), j + (n % n_cols))
          /\ pc # "pool" => pending \cup DOMAIN results = 0..(n_samples - 1)

C19_Witness ==
    /\ pc = "collect"
    /\ <<i, j>> # <<0, 0>>
    /\ <<<<0, 0>>, 0>> \in dispatched
    /\ 0 \in DOMAIN results
    /\ time_series(0) # PixelSeries(0, 0)

----------------------------------------------------------------------------
StepFailures == {"IOError", "WorkerError"}

(* C20: a call on valid inputs in which no read, task, write or marker     *)
(* step fails ends after it has visited every block once: every block is   *)
(* either skipped or loaded, every block that had no marker and holds data *)
(* has every band of every time step written and is marked, and every      *)
(* handle is closed.                                                       *)
C20_RunCompletes ==
    (pc \in {"done", "raised"} /\ err \notin StepFailures \cup ValidationErrors) =>
        /\ pc = "done"
        /\ loaded \cup skipped = AllBlocks
        /\ loaded \cap skipped = {}
        /\ \A b \in AllBlocks \ start_markers : ~NoData(b, self.block_size) =>
              /\ b \in markers
              /\ \A t \in 0..(NSteps - 1) : \A band \in 1..FinalBands :
                    <<b, t, band>> \in wrote
        /\ \A k \in DOMAIN image_infos : image_infos[k] = "closed"
        /\ \A k \in DOMAIN o_infos : o_infos[k] = "closed"

====
